---- MODULE Spec2Model ----
(***************************************************************************)
(* Model of src/src/userValidator.js: six synchronous helpers over user    *)
(* records.  A state is one pending or finished call: the function named   *)
(* by fn, its arguments, the clock, and the outcome (returned value or     *)
(* thrown message).                                                        *)
(*                                                                         *)
(* JavaScript values are records [t, n, d, s]: t is the kind, n/d a        *)
(* number as numerator and denominator, s a string as a sequence of        *)
(* one-character strings.  Numbers are exact rationals: binary floating    *)
(* point rounding of the quotient in calculateAverageAge is not modelled.  *)
(***************************************************************************)
EXTENDS Integers, Sequences, FiniteSets, TLC

VARIABLES fn, arg, userData, users, minAge, now, pc, ret, err

vars == <<fn, arg, userData, users, minAge, now, pc, ret, err>>

(* ------------------------------ bounds -------------------------------- *)
MaxPasswordLen == 9
MaxEmailLen == 6
MaxNameLen == 4
MaxFilterUsers == 3
MaxAverageUsers == 8
MaxClock == 2

(* -------------------------- program constants ------------------------- *)
MinPasswordLength == 8
MaxAge == 150

(* --------------------------- JavaScript values ------------------------ *)
Num(k) == [t |-> "number", n |-> k, d |-> 1, s |-> <<>>]
Ratio(k, m) == [t |-> "number", n |-> k, d |-> m, s |-> <<>>]
NaN == [t |-> "nan", n |-> 0, d |-> 1, s |-> <<>>]
PosInf == [t |-> "posinf", n |-> 0, d |-> 1, s |-> <<>>]
NegInf == [t |-> "neginf", n |-> 0, d |-> 1, s |-> <<>>]
Str(cs) == [t |-> "string", n |-> 0, d |-> 1, s |-> cs]
Bool(b) == [t |-> "boolean", n |-> IF b THEN 1 ELSE 0, d |-> 1, s |-> <<>>]
Undefined == [t |-> "undefined", n |-> 0, d |-> 1, s |-> <<>>]
Null == [t |-> "null", n |-> 0, d |-> 1, s |-> <<>>]

\* typeof v
TypeOf(v) ==
  CASE v.t \in {"number", "nan", "posinf", "neginf"} -> "number"
    [] v.t = "null" -> "object"
    [] OTHER -> v.t

\* a < b on two values of type number (integers, NaN, +-Infinity)
JsLt(a, b) ==
  CASE a.t = "nan" \/ b.t = "nan" -> FALSE
    [] a.t = "posinf" -> FALSE
    [] a.t = "neginf" -> b.t # "neginf"
    [] b.t = "posinf" -> TRUE
    [] b.t = "neginf" -> FALSE
    [] OTHER -> a.n < b.n

\* a > b
JsGt(a, b) == JsLt(b, a)

\* a >= b
JsGe(a, b) == a.t # "nan" /\ b.t # "nan" /\ ~JsLt(a, b)

\* a + b on two values of type number
JsAdd(a, b) ==
  CASE a.t = "nan" \/ b.t = "nan" -> NaN
    [] a.t = "posinf" -> IF b.t = "neginf" THEN NaN ELSE PosInf
    [] a.t = "neginf" -> IF b.t = "posinf" THEN NaN ELSE NegInf
    [] b.t \in {"posinf", "neginf"} -> b
    [] OTHER -> Num(a.n + b.n)

(* ------------------------------ validateEmail ------------------------- *)
\* the class \s, on the characters the inputs use
IsWhitespace(c) == c \in {" ", "\t", "\n"}

\* [^\s@]+ matches the whole of cs
NonSpaceAtRun(cs) ==
  /\ Len(cs) >= 1
  /\ \A i \in 1..Len(cs) : ~IsWhitespace(cs[i]) /\ cs[i] # "@"

\* /^[^\s@]+@[^\s@]+\.[^\s@]+$/.test(cs)
emailRegex(cs) ==
  \E i \in 1..Len(cs), j \in 1..Len(cs) :
    /\ i < j
    /\ cs[i] = "@"
    /\ cs[j] = "."
    /\ NonSpaceAtRun(SubSeq(cs, 1, i - 1))
    /\ NonSpaceAtRun(SubSeq(cs, i + 1, j - 1))
    /\ NonSpaceAtRun(SubSeq(cs, j + 1, Len(cs)))

validateEmail_NoDomainCheck(email) ==
  IF TypeOf(email) # "string" THEN FALSE
  ELSE \E i \in 1..Len(email.s) :
         /\ email.s[i] = "@"
         /\ NonSpaceAtRun(SubSeq(email.s, 1, i - 1))
         /\ NonSpaceAtRun(SubSeq(email.s, i + 1, Len(email.s)))

validateEmail(email) ==
  IF TypeOf(email) # "string" THEN FALSE
  ELSE emailRegex(email.s)

(* ----------------------------- validatePassword ----------------------- *)
\* \d without the u flag: the ASCII digits
IsDigit(c) == c \in {"0", "1", "2", "3", "4", "5", "6", "7", "8", "9"}

\* [A-Z]
IsUpperAZ(c) ==
  c \in {"A", "B", "C", "D", "E", "F", "G", "H", "I", "J", "K", "L", "M",
         "N", "O", "P", "Q", "R", "S", "T", "U", "V", "W", "X", "Y", "Z"}

validatePassword_OffByOne(password) ==
  IF TypeOf(password) # "string" THEN FALSE
  ELSE IF Len(password.s) <= MinPasswordLength THEN FALSE
  ELSE LET hasDigit == \E i \in 1..Len(password.s) : IsDigit(password.s[i])
           hasUpperCase == \E i \in 1..Len(password.s) : IsUpperAZ(password.s[i])
       IN  hasDigit /\ hasUpperCase

validatePassword(password) ==
  IF TypeOf(password) # "string" THEN FALSE
  ELSE IF Len(password.s) < MinPasswordLength THEN FALSE
  ELSE LET hasDigit == \E i \in 1..Len(password.s) : IsDigit(password.s[i])
           hasUpperCase == \E i \in 1..Len(password.s) : IsUpperAZ(password.s[i])
       IN  hasDigit /\ hasUpperCase

(* ------------------------------ formatUserName ------------------------ *)
\* String.prototype.toUpperCase on one character; the sharp s grows to SS
UpperChar(c) ==
  CASE c = "j" -> <<"J">>
    [] c = "o" -> <<"O">>
    [] c = "h" -> <<"H">>
    [] c = "n" -> <<"N">>
    [] c = "ß" -> <<"S", "S">>
    [] OTHER -> <<c>>

\* String.prototype.toLowerCase on one character
LowerChar(c) ==
  CASE c = "J" -> <<"j">>
    [] c = "O" -> <<"o">>
    [] c = "H" -> <<"h">>
    [] c = "N" -> <<"n">>
    [] c = "S" -> <<"s">>
    [] OTHER -> <<c>>

RECURSIVE toUpperCase(_)
toUpperCase(cs) ==
  IF cs = <<>> THEN <<>> ELSE UpperChar(Head(cs)) \o toUpperCase(Tail(cs))

RECURSIVE toLowerCase(_)
toLowerCase(cs) ==
  IF cs = <<>> THEN <<>> ELSE LowerChar(Head(cs)) \o toLowerCase(Tail(cs))

\* outcome of formatUserName(name): thrown message or returned string
formatUserName_UpperOnly(name) ==
  IF TypeOf(name) # "string" \/ Len(name.s) = 0
  THEN [threw |-> TRUE, msg |-> "Name must be a non-empty string", val |-> Undefined]
  ELSE [threw |-> FALSE, msg |-> "",
        val |-> Str(toUpperCase(SubSeq(name.s, 1, 1)) \o Tail(name.s))]

formatUserName(name) ==
  IF TypeOf(name) # "string" \/ Len(name.s) = 0
  THEN [threw |-> TRUE, msg |-> "Name must be a non-empty string", val |-> Undefined]
  ELSE [threw |-> FALSE, msg |-> "",
        val |-> Str(toUpperCase(SubSeq(name.s, 1, 1)) \o toLowerCase(Tail(name.s)))]

(* ----------------------------- filterUsersByAge ----------------------- *)
\* Array.isArray(u)
IsArray(u) == u.kind = "array"

\* typeof minAge !== 'number' || minAge < 0
MinAgeRejected(m) == TypeOf(m) # "number" \/ JsLt(m, Num(0))

filterPredicate_Strict(user, m) == JsGt(user.age, m)

\* user => user.age >= minAge
filterPredicate(user, m) == JsGe(user.age, m)

\* Array.prototype.filter: a new array, elements kept in order
filter(elems, m) == SelectSeq(elems, LAMBDA user : filterPredicate(user, m))

(* ------------------------------- createUser --------------------------- *)
\* typeof age !== 'number' || age < 0 || age > 150
AgeRejected(age) ==
  TypeOf(age) # "number" \/ JsLt(age, Num(0)) \/ JsGt(age, Num(MaxAge))

Digit(k) == CASE k = 0 -> "0" [] k = 1 -> "1" [] k = 2 -> "2" [] k = 3 -> "3"
              [] k = 4 -> "4" [] k = 5 -> "5" [] k = 6 -> "6" [] k = 7 -> "7"
              [] k = 8 -> "8" [] OTHER -> "9"

\* new Date().toISOString() for a clock of ms milliseconds, ms < 60000
toISOString(ms) ==
  <<"1", "9", "7", "0", "-", "0", "1", "-", "0", "1", "T",
    "0", "0", ":", "0", "0", ":">>
  \o <<Digit(ms \div 10000), Digit((ms \div 1000) % 10), ".">>
  \o <<Digit((ms \div 100) % 10), Digit((ms \div 10) % 10), Digit(ms % 10), "Z">>

newUser_KeepsPassword(data, formatted, clock) ==
  [email |-> data.email, name |-> formatted, age |-> data.age,
   password |-> data.password, createdAt |-> Str(toISOString(clock))]

\* the object literal createUser returns
newUser(data, formatted, clock) ==
  [email |-> data.email, name |-> formatted, age |-> data.age,
   createdAt |-> Str(toISOString(clock))]

(* --------------------------- calculateAverageAge ---------------------- *)
\* users.reduce((sum, user) => sum + user.age, 0)
RECURSIVE reduceAge(_, _)
reduceAge(sum, elems) ==
  IF elems = <<>> THEN sum
  ELSE reduceAge(JsAdd(sum, Head(elems).age), Tail(elems))

MathRound_Floor(k, m) == k \div m

\* Math.round(k / m) for m > 0: floor(k / m + 1/2)
MathRound(k, m) == (2 * k + m) \div (2 * m)

\* Math.round((totalAge / users.length) * 100) / 100
averageAge(elems) ==
  LET totalAge == reduceAge(Num(0), elems)
  IN  IF totalAge.t = "number"
      THEN Ratio(MathRound(100 * totalAge.n, Len(elems)), 100)
      ELSE totalAge

(* ------------------------------- inputs ------------------------------- *)
Strings(alphabet, maxLen) ==
  UNION {[1..k -> alphabet] : k \in 0..maxLen}

NonStrings == {Num(12345678), Null, Undefined}

EmailAlphabet == {"a", "@", ".", " "}
EmailInputs == {Str(cs) : cs \in Strings(EmailAlphabet, MaxEmailLen)} \cup NonStrings

PasswordAlphabet == {"a", "A", "1"}
PasswordInputs ==
  {Str(cs) : cs \in Strings(PasswordAlphabet, MaxPasswordLen)} \cup NonStrings

NameAlphabet == {"j", "O", "ß"}
NameInputs == {Str(cs) : cs \in Strings(NameAlphabet, MaxNameLen)} \cup NonStrings

Array(elems) == [kind |-> "array", elems |-> elems]
NonArrays == {[kind |-> "string", elems |-> <<>>], [kind |-> "undefined", elems |-> <<>>]}
NoUsers == [kind |-> "undefined", elems |-> <<>>]

FilterPool == [name : {"Alice", "Bob"}, age : {Num(17), Num(18), NaN}]
FilterArrays == {Array(es) : es \in Strings(FilterPool, MaxFilterUsers)}
MinAgeInputs ==
  {Num(0 - 1), Num(0), Num(18), Num(100), NaN, PosInf, NegInf, Str(<<"1", "8">>), Undefined}

AveragePool == [name : {"Alice"}, age : {Num(0 - 1), Num(0), Num(1)}]
AverageArrays == {Array(es) : es \in Strings(AveragePool, MaxAverageUsers)}

GoodEmail == Str(<<"a", "@", "b", ".", "c">>)
GoodPassword == Str(<<"P", "a", "s", "s", "w", "o", "r", "d", "1">>)
CreateEmails == {GoodEmail, Str(<<"a", "b", ".", "c">>), Undefined}
CreatePasswords == {GoodPassword, Str(<<"w", "e", "a", "k">>), Undefined}
CreateNames == {Str(<<"j", "o", "h", "n">>), Str(<<"j", "O", "H", "N">>), Str(<<>>), Num(123), Undefined}
CreateAges ==
  {Num(0 - 5), Num(0 - 1), Num(0), Num(25), Num(MaxAge), Num(MaxAge + 1), Num(200),
   NaN, PosInf, NegInf, Str(<<"2", "5">>), Undefined}
CreateRoles == {Undefined, Str(<<"a", "d", "m", "i", "n">>)}
UserDataInputs ==
  [email : CreateEmails, password : CreatePasswords, name : CreateNames,
   age : CreateAges, role : CreateRoles]
NoUserData ==
  [email |-> Undefined, password |-> Undefined, name |-> Undefined,
   age |-> Undefined, role |-> Undefined]

(* ---------------------------- the state machine ----------------------- *)
Pending == pc = "call" /\ ret = Undefined /\ err = ""

Init ==
  /\ Pending
  /\ \/ /\ fn = "validateEmail" /\ arg \in EmailInputs
        /\ userData = NoUserData /\ users = NoUsers /\ minAge = Undefined /\ now = 0
     \/ /\ fn = "validatePassword" /\ arg \in PasswordInputs
        /\ userData = NoUserData /\ users = NoUsers /\ minAge = Undefined /\ now = 0
     \/ /\ fn = "formatUserName" /\ arg \in NameInputs
        /\ userData = NoUserData /\ users = NoUsers /\ minAge = Undefined /\ now = 0
     \/ /\ fn = "filterUsersByAge" /\ users \in FilterArrays \cup NonArrays
        /\ minAge \in MinAgeInputs
        /\ arg = Undefined /\ userData = NoUserData /\ now = 0
     \/ /\ fn = "createUser" /\ userData \in UserDataInputs /\ now \in 0..MaxClock
        /\ arg = Undefined /\ users = NoUsers /\ minAge = Undefined
     \/ /\ fn = "calculateAverageAge"
        /\ users \in AverageArrays \cup FilterArrays \cup NonArrays
        /\ arg = Undefined /\ userData = NoUserData /\ minAge = Undefined /\ now = 0

Return(v) == pc' = "returned" /\ ret' = v /\ err' = ""
Throw(m) == pc' = "thrown" /\ ret' = Undefined /\ err' = m

validateEmailCall ==
  /\ pc = "call" /\ fn = "validateEmail"
  /\ Return(Bool(validateEmail(arg)))
  /\ UNCHANGED <<fn, arg, userData, users, minAge, now>>

validatePasswordCall ==
  /\ pc = "call" /\ fn = "validatePassword"
  /\ Return(Bool(validatePassword(arg)))
  /\ UNCHANGED <<fn, arg, userData, users, minAge, now>>

formatUserNameCall ==
  /\ pc = "call" /\ fn = "formatUserName"
  /\ LET r == formatUserName(arg)
     IN  IF r.threw THEN Throw(r.msg) ELSE Return(r.val)
  /\ UNCHANGED <<fn, arg, userData, users, minAge, now>>

filterUsersByAgeCall ==
  /\ pc = "call" /\ fn = "filterUsersByAge"
  /\ IF ~IsArray(users) THEN Throw("Users must be an array")
     ELSE IF MinAgeRejected(minAge) THEN Throw("MinAge must be a positive number")
     ELSE Return(Array(filter(users.elems, minAge)))
  /\ UNCHANGED <<fn, arg, userData, users, minAge, now>>

createUserCall ==
  /\ pc = "call" /\ fn = "createUser"
  /\ IF ~validateEmail(userData.email) THEN Throw("Invalid email")
     ELSE IF ~validatePassword(userData.password) THEN Throw("Invalid password")
     ELSE IF AgeRejected(userData.age) THEN Throw("Invalid age")
     ELSE LET r == formatUserName(userData.name)
          IN  IF r.threw THEN Throw(r.msg)
              ELSE Return(newUser(userData, r.val, now))
  /\ UNCHANGED <<fn, arg, userData, users, minAge, now>>

calculateAverageAgeCall_NoEmptyCheck ==
  /\ pc = "call" /\ fn = "calculateAverageAge"
  /\ IF ~IsArray(users)
     THEN Throw("Users must be a non-empty array")
     ELSE Return(IF Len(users.elems) = 0 THEN NaN ELSE averageAge(users.elems))
  /\ UNCHANGED <<fn, arg, userData, users, minAge, now>>

calculateAverageAgeCall ==
  /\ pc = "call" /\ fn = "calculateAverageAge"
  /\ IF ~IsArray(users) \/ Len(users.elems) = 0
     THEN Throw("Users must be a non-empty array")
     ELSE Return(averageAge(users.elems))
  /\ UNCHANGED <<fn, arg, userData, users, minAge, now>>

Next ==
  \/ validateEmailCall
  \/ validatePasswordCall
  \/ formatUserNameCall
  \/ filterUsersByAgeCall
  \/ createUserCall
  \/ calculateAverageAgeCall

Spec == Init /\ [][Next]_vars

(* ------------------------------ properties ---------------------------- *)
Finished(f) == fn = f /\ pc # "call"
Threw(m) == pc = "thrown" /\ err = m
Step(f) == fn = f /\ pc = "call" /\ pc' # "call"

\* 0 <= age <= 150 on a value of type number
AgeInRange(age) ==
  TypeOf(age) = "number" /\ JsGe(age, Num(0)) /\ JsGe(Num(MaxAge), age)

NonEmptyString(v) == TypeOf(v) = "string" /\ Len(v.s) > 0

\* C1: createUser checks email, password, age, name in this order and
\* reports only the first failing check, an age outside 0..150 (or not a
\* number) being reported as 'Invalid age' whatever the name is.
C1_FirstFailingCheckReported ==
  Finished("createUser") =>
    LET e == validateEmail(userData.email)
        p == validatePassword(userData.password)
        a == AgeInRange(userData.age)
        n == NonEmptyString(userData.name)
    IN  /\ ~e => Threw("Invalid email")
        /\ (e /\ ~p) => Threw("Invalid password")
        /\ (e /\ p /\ ~a) => Threw("Invalid age")
        /\ Threw("Name must be a non-empty string") => (e /\ p /\ a /\ ~n)

\* C2: with a valid email and password, createUser accepts age only if it
\* is a number with 0 <= age <= 150; every other age, NaN included, fails
\* with 'Invalid age'.
C2_AgeAcceptedOnlyInRange ==
  ( /\ Finished("createUser")
    /\ validateEmail(userData.email)
    /\ validatePassword(userData.password) ) =>
    (Threw("Invalid age") <=> ~AgeInRange(userData.age))

\* C3: a successful createUser returns a record with exactly the fields
\* email, name, age, createdAt; email and age are the input's, name is the
\* formatted input name, the password is absent, and userData is unchanged.
C3_RecordFields ==
  [][ (Step("createUser") /\ pc' = "returned") =>
        /\ DOMAIN ret' = {"email", "name", "age", "createdAt"}
        /\ ret'.email = userData.email
        /\ ret'.age = userData.age
        /\ ret'.name.t = "string"
        /\ Len(ret'.name.s) = Len(userData.name.s)
        /\ ret'.name.s[1] = UpperChar(userData.name.s[1])[1]
        /\ \A i \in 2..Len(userData.name.s) :
             ret'.name.s[i] = LowerChar(userData.name.s[i])[1]
        /\ ret'.createdAt.t = "string"
        /\ userData' = userData ]_vars

C3_Witness ==
  /\ fn = "createUser" /\ pc = "returned"
  /\ userData.role # Undefined
  /\ ret.name # userData.name
  /\ ret.age = Num(MaxAge)

\* the ages kept by minAge, as positions of elems
KeptPositions(elems, m) == {i \in 1..Len(elems) : JsGe(elems[i].age, m)}

\* out is elems restricted to the positions in keep, in increasing order
IsRestriction(out, elems, keep) ==
  /\ Len(out) = Cardinality(keep)
  /\ \E f \in [1..Len(out) -> 1..Len(elems)] :
       /\ \A i \in 1..Len(out) : f[i] \in keep /\ out[i] = elems[f[i]]
       /\ \A i \in 1..Len(out), j \in 1..Len(out) : i < j => f[i] < f[j]

\* C4: for an array of records with numeric age and a number minAge >= 0,
\* filterUsersByAge returns the subsequence of the elements with
\* age >= minAge, in order and with duplicates, and leaves users unchanged.
C4_FilterSubsequence ==
  [][ ( /\ Step("filterUsersByAge")
        /\ IsArray(users)
        /\ TypeOf(minAge) = "number" /\ JsGe(minAge, Num(0)) ) =>
        /\ pc' = "returned"
        /\ IsArray(ret')
        /\ IsRestriction(ret'.elems, users.elems, KeptPositions(users.elems, minAge))
        /\ users' = users ]_vars

C4_Witness ==
  /\ fn = "filterUsersByAge" /\ pc = "returned"
  /\ Len(users.elems) = 3
  /\ Len(ret.elems) = 2
  /\ ret.elems[1] = ret.elems[2]
  /\ ret.elems[1].age = minAge
  /\ users.elems[2].age = Num(17)

\* C5: filterUsersByAge returns only when users is an array and minAge is a
\* number with minAge >= 0; a non-array gives 'Users must be an array'
\* first, and every other minAge (NaN included) gives 'MinAge must be a
\* positive number'.
C5_FilterArgumentErrors ==
  Finished("filterUsersByAge") =>
    LET m == TypeOf(minAge) = "number" /\ JsGe(minAge, Num(0))
    IN  /\ pc = "returned" <=> (IsArray(users) /\ m)
        /\ ~IsArray(users) => Threw("Users must be an array")
        /\ (IsArray(users) /\ ~m) => Threw("MinAge must be a positive number")

\* C6: validatePassword never fails and returns true exactly for a string
\* of length >= 8 with at least one digit 0-9 and one letter A-Z.
C6_PasswordRule ==
  Finished("validatePassword") =>
    /\ pc = "returned"
    /\ ret = Bool( /\ TypeOf(arg) = "string"
                   /\ Len(arg.s) >= 8
                   /\ \E i \in 1..Len(arg.s) : IsDigit(arg.s[i])
                   /\ \E i \in 1..Len(arg.s) : IsUpperAZ(arg.s[i]) )

C6_Witness ==
  /\ fn = "validatePassword" /\ pc = "returned"
  /\ ret = Bool(TRUE)
  /\ Len(arg.s) = 8
  /\ IsDigit(arg.s[1]) /\ IsUpperAZ(arg.s[8])

AtPositions(cs) == {i \in 1..Len(cs) : cs[i] = "@"}

\* no whitespace, exactly one '@' that is not first, and after it a '.'
\* that is neither the first nor the last character of that part
EmailShape(cs) ==
  /\ \A i \in 1..Len(cs) : ~IsWhitespace(cs[i])
  /\ Cardinality(AtPositions(cs)) = 1
  /\ \A at \in AtPositions(cs) :
       /\ at > 1
       /\ \E j \in (at + 2)..(Len(cs) - 1) : cs[j] = "."

\* C7: validateEmail never fails and returns true exactly for a string
\* without whitespace, with exactly one '@', something before it, and a
\* '.' strictly inside the part after it.
C7_EmailRule ==
  Finished("validateEmail") =>
    /\ pc = "returned"
    /\ ret = Bool(TypeOf(arg) = "string" /\ EmailShape(arg.s))

C7_Witness ==
  /\ fn = "validateEmail" /\ pc = "returned"
  /\ ret = Bool(TRUE)
  /\ arg.s = <<"a", "@", "a", ".", ".", "a">>

RECURSIVE SumOfAges(_)
SumOfAges(elems) ==
  IF elems = <<>> THEN 0 ELSE Head(elems).age.n + SumOfAges(Tail(elems))

IntegerAges(elems) == \A i \in 1..Len(elems) : elems[i].age.t = "number"

Abs(k) == IF k < 0 THEN 0 - k ELSE k

\* r is an integer nearest to k / m
IsNearest(r, k, m) == 2 * Abs(r * m - k) <= m

\* k / m lies exactly halfway between two integers
IsHalfway(k, m) == (2 * k) % m = 0 /\ (2 * k) % (2 * m) # 0

AsciiLetter(c) ==
  \/ IsUpperAZ(c)
  \/ c \in {"a", "b", "c", "d", "e", "f", "g", "h", "i", "j", "k", "l", "m",
            "n", "o", "p", "q", "r", "s", "t", "u", "v", "w", "x", "y", "z"}

AsciiLetters(cs) == \A i \in 1..Len(cs) : AsciiLetter(cs[i])

\* C9: formatUserName throws 'Name must be a non-empty string' exactly for
\* a non-string or the empty string; a non-empty string of ASCII letters
\* gives a string of the same length, first character upper-cased, the
\* others lower-cased, which formatUserName maps to itself.
C9_FormatRule ==
  Finished("formatUserName") =>
    /\ pc = "thrown" <=> ~NonEmptyString(arg)
    /\ pc = "thrown" => err = "Name must be a non-empty string"
    /\ (NonEmptyString(arg) /\ AsciiLetters(arg.s)) =>
         /\ ret.t = "string"
         /\ Len(ret.s) = Len(arg.s)
         /\ <<ret.s[1]>> = UpperChar(arg.s[1])
         /\ \A i \in 2..Len(arg.s) : <<ret.s[i]>> = LowerChar(arg.s[i])
         /\ formatUserName(ret) = [threw |-> FALSE, msg |-> "", val |-> ret]

C9_Witness ==
  /\ fn = "formatUserName" /\ pc = "returned"
  /\ arg.s = <<"j", "O", "O", "j">>
  /\ ret.s = <<"J", "o", "o", "j">>

\* C10: calculateAverageAge throws 'Users must be a non-empty array'
\* exactly for a non-array or an empty array; for a non-empty array of
\* records with numeric age it returns a number, and users is unchanged.
C10_AverageArgumentErrors ==
  [][ Step("calculateAverageAge") =>
        /\ pc' = "thrown" <=> (~IsArray(users) \/ Len(users.elems) = 0)
        /\ pc' = "thrown" => err' = "Users must be a non-empty array"
        /\ pc' = "returned" => TypeOf(ret') = "number"
        /\ users' = users ]_vars

C10_Witness ==
  /\ fn = "calculateAverageAge" /\ pc = "returned"
  /\ Len(users.elems) = 3
  /\ ret = Ratio(33, 100)

====
